---- MODULE Spec2Model ----
(***************************************************************************)
(* Team verification workflow of the Innovate-X registration server.       *)
(*                                                                         *)
(* The model follows PATCH /api/admin/teams/:id/status (server/routes.ts)  *)
(* and the DatabaseStorage methods it calls.  Every `await` of the handler *)
(* is a step of its own, so that concurrent requests interleave exactly    *)
(* where the Node event loop lets them.  Database calls are atomic and do  *)
(* not fail; the three external calls (QR rendering, Cloudinary upload,    *)
(* Brevo e-mail) succeed or throw nondeterministically.                    *)
(*                                                                         *)
(* Spec and SpecSerial are the status-update handler alone.  SpecApp adds  *)
(* its middleware and the routes for registration, settings, gallery and   *)
(* the team list; SpecClient is apiRequest of the browser.                 *)
(*                                                                         *)
(* Nullable columns and optional inputs are sequences of length 0 or 1:    *)
(* <<>> is SQL NULL / JS undefined, <<v>> is the value v.                  *)
(***************************************************************************)
EXTENDS Integers, Sequences, FiniteSets, TLC

VARIABLES
    teams,      \* table teams: id -> row
    members,    \* table members: team id -> sequence of member rows
    auditLogs,  \* table audit_logs, in insertion order
    outbox,     \* every call of the Brevo API made by sendEmail
    blobs,      \* every image uploaded to Cloudinary folder innovate-x/qr-codes
    statusLog,  \* history: every UPDATE of teams.status, with the old value
    clock,      \* new Date()
    reqs,       \* every request received so far: parameters, body, session
    resps,      \* request -> HTTP status sent, <<>> while none
    pc,         \* admin session -> the await its request's handler is suspended at
    cur,        \* admin session -> the request it waits for, 0 when none
    loc,        \* admin session -> the handler's local constants
    settings,   \* table event_settings: key -> value, <<>> without a row
    gallery,    \* column showInGallery: team id -> flag
    gate,       \* every status update that reached the middleware, with its outcome
    reg,        \* the POST /api/register handler in flight
    regLog,     \* every registration answered: payload, team id, HTTP status
    view,       \* the last response of GET /api/admin/teams, <<>> before any
    ops,        \* route invocations so far
    client,     \* one apiRequest call of the browser
    page,       \* the Register page of the browser: wizard, draft, save timers
    ups,        \* the POST /api/admin/settings handlers in flight, and their answers
    admins,     \* table admins, in insertion order
    boot        \* server instance -> where its initializeAdmin stands

\* the state of the status-update handler and the tables it uses
coreVars == <<teams, members, auditLogs, outbox, blobs, statusLog, clock, reqs, resps,
              pc, cur, loc>>

\* the state of the other routes and of the browser
appVars == <<settings, gallery, gate, reg, regLog, view, ops>>

\* the state of the page, of the settings handlers and of the server start
sideVars == <<page, ups, admins, boot>>

\* what a step of the status-update handler leaves alone
rest == <<appVars, client, sideVars>>

vars == <<coreVars, appVars, client, sideVars>>

----------------------------------------------------------------------------
(* Bounds *)

\* requests received in one behaviour
MaxReq == 2

\* The administrator's browser sessions.  The dashboard awaits the response
\* of a status update before the next one, so a session has at most one
\* request in flight; two sessions race.
Sessions == {"s1", "s2"}

----------------------------------------------------------------------------
(* Values *)

NULL == <<>>

Some(v) == <<v>>

IsNull(o) == o = <<>>

TeamIds == {"t1", "t2"}

MissingId == "t9"

Ids == TeamIds \cup {MissingId}

Admins == {"admin@x"}

Notes == {NULL, Some("Welcome")}

\* statusEnum of the schema; the request body may carry any of them
StatusEnum == {"PENDING", "VERIFIED", "REJECTED"}

\* updateTeamStatusSchema: z.enum(["VERIFIED", "REJECTED"]), note optional
updateTeamStatusSchema(body) == body.status \in {"VERIFIED", "REJECTED"}

\* the name of the calendar attachment, as the segments it is written from
IcsName == <<"innovate-x-2025", ".ics">>

HasSuffix(name, suffix) ==
    /\ Len(name) >= Len(suffix)
    /\ SubSeq(name, Len(name) - Len(suffix) + 1, Len(name)) = suffix

MemberRow(teamId, email) == [teamId |-> teamId, email |-> email]

TeamRow(name, category, title, contact, count) ==
    [teamName |-> name, category |-> category, projectTitle |-> title,
     contactEmail |-> contact, memberCount |-> count,
     status |-> "PENDING", verificationNote |-> NULL, qrCodeUrl |-> NULL,
     verifiedAt |-> NULL, verifiedBy |-> NULL]

NoLocals == [team |-> NULL, members |-> <<>>, qrDataUrl |-> NULL, qrCodeUrl |-> NULL]

\* the event settings the admin console edits
SettingKeys == {"EVENT_DATE", "EVENT_TIME", "EVENT_VENUE", "EVENT_ADDRESS"}

\* no registration in flight
NoRegistration ==
    [pc |-> "idle", raw |-> NULL, data |-> NULL, files |-> NULL, captcha |-> NULL,
     uploads |-> 0, team |-> NULL]

\* no apiRequest call in flight
NoCall == [pc |-> "idle"]

\* const STEPS = ["Team Details", "Members", "Uploads", "Review"]
STEPS == <<"Team Details", "Members", "Uploads", "Review">>

\* the Register page as it mounts: useState(0), no draft in localStorage, no
\* timer.  Field shown is the currentStep of the last render, the constant
\* the handlers on the screen have closed over.
NoPage ==
    [currentStep |-> 0, shown |-> 0, calls |-> <<>>, moves |-> <<>>,
     edits |-> 0, timers |-> {}, draft |-> NULL, mutation |-> "idle",
     submittedAt |-> NULL]

\* the administrators' requests that save settings
Callers == {"a1", "a2"}

\* no settings handler in flight
NoUpsert == [pc |-> "idle", key |-> NULL, value |-> NULL]

NoUpserts == [call |-> [c \in Callers |-> NoUpsert], log |-> <<>>]

\* the server processes that start on the database
Instances == {"i1", "i2"}

\* a process that has not started: no start so far, no password hashed
NoBoot == [pc |-> "down", starts |-> 0, hash |-> NULL]

----------------------------------------------------------------------------
(* Pure functions of the server *)

\* value || fallback on an optional string
OrElse(o, fallback) == IF IsNull(o) THEN fallback ELSE o[1]

\* qrData with the time of issue embedded
qrData_stamped(id, team) ==
    [teamId |-> id, teamName |-> team.teamName, category |-> team.category,
     verified |-> TRUE, issuedAt |-> clock]

\* JSON.stringify({teamId, teamName, category, verified: true})
qrData(id, team) ==
    [teamId |-> id, teamName |-> team.teamName, category |-> team.category,
     verified |-> TRUE]

\* generateICS: one VEVENT with the event's fixed date, title and location
generateICS(teamName, projectTitle) ==
    [start |-> <<2025, 11, 25, 9, 0>>, end |-> <<2025, 11, 25, 17, 0>>,
     title |-> "Innovate-X 2025 - Project Expo",
     description |-> <<teamName, projectTitle>>,
     location |-> "Main Auditorium, Your College",
     status |-> "CONFIRMED"]

\* emailRecipients with the contact habit of the rejection branch: one address
emailRecipients_firstOnly(ms) == IF ms = <<>> THEN <<>> ELSE <<ms[1].email>>

\* members.map((m) => m.email)
emailRecipients(ms) == [i \in 1..Len(ms) |-> ms[i].email]

\* DatabaseStorage.updateTeamStatus: the row after UPDATE ... WHERE id = id.
\* A key whose value is undefined is left out of the SET clause.
updateTeamStatus(row, status, note, verifiedBy, now) ==
    LET base == [row EXCEPT !.status = status,
                            !.verificationNote = IF IsNull(note) THEN @ ELSE note]
    IN  IF status = "VERIFIED"
        THEN [base EXCEPT !.verifiedAt = Some(now),
                          !.verifiedBy = Some(OrElse(verifiedBy, "admin"))]
        ELSE base

\* DatabaseStorage.updateTeamQrCode
updateTeamQrCode(row, qrCodeUrl) == [row EXCEPT !.qrCodeUrl = Some(qrCodeUrl)]

\* DatabaseStorage.getTeamById
getTeamById(id) == IF id \in DOMAIN teams THEN Some(teams[id]) ELSE NULL

\* The columns of the row read at the start that the handler reads afterwards
\* (teamName, category, projectTitle, contactEmail); no other field of the
\* constant `team` is used.
Snapshot(row) ==
    [teamName |-> row.teamName, category |-> row.category,
     projectTitle |-> row.projectTitle, contactEmail |-> row.contactEmail]

\* DatabaseStorage.getMembersByTeamId
getMembersByTeamId(id) == IF id \in DOMAIN members THEN members[id] ELSE <<>>

\* history: the status a request finds its team in, "NONE" without such a team
statusOf(id) == IF id \in DOMAIN teams THEN teams[id].status ELSE "NONE"

\* an audit log that keeps one entry for each team: a new entry of a team
\* takes the place of the team's previous one
createAuditLog_replace(log, entry) ==
    IF \E i \in DOMAIN log : log[i].teamId = entry.teamId
    THEN LET i == CHOOSE x \in DOMAIN log : log[x].teamId = entry.teamId IN
         [log EXCEPT ![i] = entry]
    ELSE Append(log, entry)

\* db.insert(auditLogs).values({teamId, action, performedBy, details}): the
\* table with one more row.  Field req of an entry is history: the status
\* update that wrote it, 0 for the other routes.
createAuditLog(log, entry) == Append(log, entry)

\* the audit action tag of a decision
auditAction(status) == IF status = "VERIFIED" THEN "TEAM_VERIFIED" ELSE "TEAM_REJECTED"

----------------------------------------------------------------------------
(* Initial state: two registered teams awaiting a decision *)

Init ==
    /\ teams = [t \in TeamIds |->
                 IF t = "t1"
                 THEN TeamRow("Alpha", "SOFTWARE", "Project One", "lead@alpha", 2)
                 ELSE TeamRow("Beta", "HARDWARE", "Project Two", "m3@beta", 3)]
    /\ members = [t \in TeamIds |->
                   IF t = "t1"
                   THEN <<MemberRow(t, "m1@alpha"), MemberRow(t, "m2@alpha")>>
                   ELSE <<MemberRow(t, "m3@beta"), MemberRow(t, "m4@beta"),
                          MemberRow(t, "m5@beta")>>]
    /\ auditLogs = <<>>
    /\ outbox = <<>>
    /\ blobs = <<>>
    /\ statusLog = <<>>
    /\ clock = 1
    /\ reqs = <<>>
    /\ resps = <<>>
    /\ pc = [s \in Sessions |-> "idle"]
    /\ cur = [s \in Sessions |-> 0]
    /\ loc = [s \in Sessions |-> NoLocals]
    /\ settings = [k \in SettingKeys |-> NULL]
    /\ gallery = [t \in TeamIds |-> FALSE]
    /\ gate = <<>>
    /\ reg = NoRegistration
    /\ regLog = <<>>
    /\ view = NULL
    /\ ops = 0
    /\ client = NoCall
    /\ page = NoPage
    /\ ups = NoUpserts
    /\ admins = <<>>
    /\ boot = [i \in Instances |-> NoBoot]

----------------------------------------------------------------------------
(* PATCH /api/admin/teams/:id/status, one action per await *)

\* the request session s waits for
R(s) == reqs[cur[s]]

Goto(s, label) == pc' = [pc EXCEPT ![s] = label]

\* the status of the catch block's answer to any error that is no ZodError
GenericFailure == 500

\* res.status(code).json(...): the handler returns and its locals are gone
Respond(s, rid, code) ==
    /\ resps' = [resps EXCEPT ![rid] = Some(code)]
    /\ pc' = [pc EXCEPT ![s] = "idle"]
    /\ cur' = [cur EXCEPT ![s] = 0]
    /\ loc' = [loc EXCEPT ![s] = NoLocals]

\* the request arrives (authenticated, with a valid CSRF token) and its body
\* is parsed; a ZodError is answered 400
Receive(s) ==
    /\ pc[s] = "idle"
    /\ Len(reqs) < MaxReq
    /\ s = CHOOSE x \in Sessions : pc[x] = "idle"
    /\ \E id \in Ids, status \in StatusEnum, note \in Notes, admin \in Admins :
         LET body == [status |-> status, note |-> note]
             rid == Len(reqs) + 1 IN
         /\ reqs' = Append(reqs, [id |-> id, body |-> body, adminEmail |-> Some(admin),
                                  statusAtArrival |-> statusOf(id)])
         /\ IF updateTeamStatusSchema(body)
            THEN /\ resps' = Append(resps, NULL)
                 /\ Goto(s, "getTeam")
                 /\ cur' = [cur EXCEPT ![s] = rid]
            ELSE /\ resps' = Append(resps, Some(400))
                 /\ UNCHANGED <<pc, cur>>
    /\ UNCHANGED <<teams, members, auditLogs, outbox, blobs, statusLog, clock, loc>>

Begin(s) ==
    /\ Receive(s)
    /\ UNCHANGED rest

\* GetTeam without the `if (!team)` test
GetTeam_noNotFound(s) ==
    /\ pc[s] = "getTeam"
    /\ LET team == getTeamById(R(s).id) IN
       loc' = [loc EXCEPT ![s].team =
                 IF IsNull(team) THEN NULL ELSE Some(Snapshot(team[1]))]
    /\ Goto(s, "updateStatus")
    /\ UNCHANGED <<teams, members, auditLogs, outbox, blobs, statusLog, clock, reqs,
                   resps, cur>>
    /\ UNCHANGED rest

\* const team = await storage.getTeamById(id); if (!team) return 404
GetTeam(s) ==
    /\ pc[s] = "getTeam"
    /\ LET team == getTeamById(R(s).id) IN
       IF IsNull(team)
       THEN Respond(s, cur[s], 404)
       ELSE /\ loc' = [loc EXCEPT ![s].team = Some(Snapshot(team[1]))]
            /\ Goto(s, "updateStatus")
            /\ UNCHANGED <<resps, cur>>
    /\ UNCHANGED <<teams, members, auditLogs, outbox, blobs, statusLog, clock, reqs>>
    /\ UNCHANGED rest

\* await storage.updateTeamStatus(id, status, note, req.session.adminEmail)
UpdateStatus(s) ==
    /\ pc[s] = "updateStatus"
    /\ LET id == R(s).id IN
       /\ teams' = [t \in DOMAIN teams |->
                      IF t = id
                      THEN updateTeamStatus(teams[t], R(s).body.status, R(s).body.note,
                                            R(s).adminEmail, clock)
                      ELSE teams[t]]
       /\ statusLog' = IF id \in DOMAIN teams
                       THEN Append(statusLog,
                                   [teamId |-> id, old |-> teams[id].status,
                                    new |-> teams'[id].status, req |-> cur[s]])
                       ELSE statusLog
    /\ clock' = clock + 1
    /\ Goto(s, "auditLog")
    /\ UNCHANGED <<members, auditLogs, outbox, blobs, reqs, resps, cur, loc>>
    /\ UNCHANGED rest

\* await storage.createAuditLog(id, TEAM_VERIFIED | TEAM_REJECTED, adminEmail, note)
CreateAuditLog(s) ==
    /\ pc[s] = "auditLog"
    /\ auditLogs' = createAuditLog(auditLogs,
                                   [teamId |-> R(s).id,
                                    action |-> auditAction(R(s).body.status),
                                    performedBy |-> R(s).adminEmail[1],
                                    details |-> R(s).body.note, req |-> cur[s]])
    /\ Goto(s, "getMembers")
    /\ UNCHANGED <<teams, members, outbox, blobs, statusLog, clock, reqs, resps, cur, loc>>
    /\ UNCHANGED rest

\* const members = await storage.getMembersByTeamId(id)
GetMembers(s) ==
    /\ pc[s] = "getMembers"
    /\ loc' = [loc EXCEPT ![s].members = getMembersByTeamId(R(s).id)]
    /\ Goto(s, IF R(s).body.status = "VERIFIED" THEN "qrRender" ELSE "sendEmail")
    /\ UNCHANGED <<teams, members, auditLogs, outbox, blobs, statusLog, clock,
                   reqs, resps, cur>>
    /\ UNCHANGED rest

\* generateQRCode, first await: QRCode.toDataURL(qrData); a throw is answered 500
RenderQr(s) ==
    /\ pc[s] = "qrRender"
    /\ \E ok \in BOOLEAN :
         IF ok
         THEN /\ loc' = [loc EXCEPT ![s].qrDataUrl =
                           Some(qrData(R(s).id, loc[s].team[1]))]
              /\ Goto(s, "qrUpload")
              /\ UNCHANGED <<resps, cur>>
         ELSE Respond(s, cur[s], 500)
    /\ UNCHANGED <<teams, members, auditLogs, outbox, blobs, statusLog, clock, reqs>>
    /\ UNCHANGED rest

\* generateQRCode, second await: cloudinary.uploader.upload; a new URL per upload
UploadQr(s) ==
    /\ pc[s] = "qrUpload"
    /\ \E ok \in BOOLEAN :
         IF ok
         THEN /\ blobs' = Append(blobs, [data |-> loc[s].qrDataUrl[1], req |-> cur[s]])
              /\ loc' = [loc EXCEPT ![s].qrCodeUrl = Some(Len(blobs) + 1)]
              /\ Goto(s, "updateQr")
              /\ UNCHANGED <<resps, cur>>
         ELSE /\ Respond(s, cur[s], 500)
              /\ UNCHANGED blobs
    /\ UNCHANGED <<teams, members, auditLogs, outbox, statusLog, clock, reqs>>
    /\ UNCHANGED rest

\* await storage.updateTeamQrCode(id, qrCodeUrl)
UpdateQr(s) ==
    /\ pc[s] = "updateQr"
    /\ teams' = [t \in DOMAIN teams |->
                   IF t = R(s).id
                   THEN updateTeamQrCode(teams[t], loc[s].qrCodeUrl[1])
                   ELSE teams[t]]
    /\ Goto(s, "sendEmail")
    /\ UNCHANGED <<members, auditLogs, outbox, blobs, statusLog, clock,
                   reqs, resps, cur, loc>>
    /\ UNCHANGED rest

\* notification with the rejection mailed to every member as well
notification_rejectToAll(s) ==
    LET team == loc[s].team[1] IN
    [to |-> IF R(s).body.status = "VERIFIED"
            THEN emailRecipients(loc[s].members)
            ELSE <<team.contactEmail>> \o emailRecipients(loc[s].members),
     kind |-> auditAction(R(s).body.status),
     qr |-> loc[s].qrCodeUrl,
     note |-> R(s).body.note,
     attachments |-> IF R(s).body.status = "VERIFIED"
                     THEN <<[name |-> IcsName,
                             content |-> generateICS(team.teamName, team.projectTitle)]>>
                     ELSE <<>>,
     teamId |-> R(s).id, req |-> cur[s]]

\* the arguments of the one sendEmail call of the branch taken
notification(s) ==
    LET team == loc[s].team[1] IN
    IF R(s).body.status = "VERIFIED"
    THEN [to |-> emailRecipients(loc[s].members),
          kind |-> "TEAM_VERIFIED",
          qr |-> loc[s].qrCodeUrl,
          note |-> R(s).body.note,
          attachments |-> <<[name |-> IcsName,
                             content |-> generateICS(team.teamName, team.projectTitle)]>>,
          teamId |-> R(s).id, req |-> cur[s]]
    ELSE [to |-> <<team.contactEmail>>,
          kind |-> "TEAM_REJECTED",
          qr |-> NULL,
          note |-> R(s).body.note,
          attachments |-> <<>>,
          teamId |-> R(s).id, req |-> cur[s]]

\* SendEmail with the error of sendEmail swallowed: 200 whatever the call did
SendEmail_swallow(s) ==
    /\ pc[s] = "sendEmail"
    /\ \E ok \in BOOLEAN :
         /\ outbox' = Append(outbox, [msg |-> notification(s), delivered |-> ok])
         /\ Respond(s, cur[s], 200)
    /\ UNCHANGED <<teams, members, auditLogs, blobs, statusLog, clock, reqs>>
    /\ UNCHANGED rest

\* SendEmail with a catch block that undoes the decision
SendEmail_rollback(s) ==
    /\ pc[s] = "sendEmail"
    /\ \E ok \in BOOLEAN :
         /\ outbox' = Append(outbox, [msg |-> notification(s), delivered |-> ok])
         /\ Respond(s, cur[s], IF ok THEN 200 ELSE 500)
         /\ teams' = IF ok THEN teams
                     ELSE [teams EXCEPT ![R(s).id].status = "PENDING"]
    /\ UNCHANGED <<members, auditLogs, blobs, statusLog, clock, reqs>>
    /\ UNCHANGED rest

\* await sendEmail(...); then 200, or 500 from the catch block when it throws
SendEmail(s) ==
    /\ pc[s] = "sendEmail"
    /\ \E ok \in BOOLEAN :
         /\ outbox' = Append(outbox, [msg |-> notification(s), delivered |-> ok])
         /\ Respond(s, cur[s], IF ok THEN 200 ELSE 500)
    /\ UNCHANGED <<teams, members, auditLogs, blobs, statusLog, clock, reqs>>
    /\ UNCHANGED rest

\* the status-update handler alone: the other routes and the browser stand still
Next ==
    \E s \in Sessions :
        \/ Begin(s)
        \/ GetTeam(s)
        \/ UpdateStatus(s)
        \/ CreateAuditLog(s)
        \/ GetMembers(s)
        \/ RenderQr(s)
        \/ UploadQr(s)
        \/ UpdateQr(s)
        \/ SendEmail(s)

Spec == Init /\ [][Next]_vars

----------------------------------------------------------------------------
(* What a request did, read off the histories *)

Rids == 1..Len(reqs)

Responded(rid) == ~IsNull(resps[rid])

WritesBy(rid) == {i \in DOMAIN statusLog : statusLog[i].req = rid}

AuditsBy(rid) == {i \in DOMAIN auditLogs : auditLogs[i].req = rid}

MintsBy(rid) == {i \in DOMAIN blobs : blobs[i].req = rid}

SendsBy(rid) == {i \in DOMAIN outbox : outbox[i].msg.req = rid}

NoEffects(rid) ==
    /\ WritesBy(rid) = {}
    /\ AuditsBy(rid) = {}
    /\ MintsBy(rid) = {}
    /\ SendsBy(rid) = {}

\* status updates of team t that changed the value of status
Transitions(t) == {i \in DOMAIN statusLog : statusLog[i].teamId = t
                                            /\ statusLog[i].old # statusLog[i].new}

DecisionAudits(t) == {i \in DOMAIN auditLogs :
                        /\ auditLogs[i].teamId = t
                        /\ auditLogs[i].action \in {"TEAM_VERIFIED", "TEAM_REJECTED"}}

Quiescent == \A s \in Sessions : pc[s] = "idle"

----------------------------------------------------------------------------
(* The status-update handler with one request at a time: every request *)
(* arrives after the previous one was answered, as a retry does        *)

BeginSerial(s) ==
    /\ Quiescent
    /\ Begin(s)

NextSerial ==
    \E s \in Sessions :
        \/ BeginSerial(s)
        \/ GetTeam(s)
        \/ UpdateStatus(s)
        \/ CreateAuditLog(s)
        \/ GetMembers(s)
        \/ RenderQr(s)
        \/ UploadQr(s)
        \/ UpdateQr(s)
        \/ SendEmail(s)

SpecSerial == Init /\ [][NextSerial]_vars

----------------------------------------------------------------------------
(* Claims *)

\* C1: a status update invoked on a team whose status is not PENDING is
\* rejected and has no side effect: no status write, no audit entry, no QR
\* upload, no notification, and it is not answered 200.
C1_GuardRejectsDecidedTeam ==
    \A rid \in Rids :
        reqs[rid].statusAtArrival \in {"VERIFIED", "REJECTED"} =>
            /\ NoEffects(rid)
            /\ resps[rid] # Some(200)

\* C2: a decided team keeps its status: no step changes the status of a team
\* that is VERIFIED or REJECTED.
C2_StatusTerminal ==
    [][\A t \in DOMAIN teams :
          teams[t].status # "PENDING" => teams'[t].status = teams[t].status]_vars

\* C3: of two status updates that both arrive while their team is PENDING,
\* at most one has any effect (status write, audit entry, QR upload,
\* notification); the other has none.
C3_OneWinnerOfARace ==
    \A r1, r2 \in Rids :
        ( /\ r1 # r2
          /\ reqs[r1].id = reqs[r2].id
          /\ reqs[r1].statusAtArrival = "PENDING"
          /\ reqs[r2].statusAtArrival = "PENDING" )
        => (NoEffects(r1) \/ NoEffects(r2))

\* C4: a well-formed status update whose id names no team is answered 404
\* and nothing else: its handler stops at the lookup, it writes no status,
\* appends no audit entry, uploads no QR image and sends no notification, and
\* no row, audit entry or notification refers to that id.
C4_NotFoundNoEffects ==
    /\ \A rid \in Rids :
         ( /\ reqs[rid].id \notin DOMAIN teams
           /\ updateTeamStatusSchema(reqs[rid].body) )
         => /\ resps[rid] \in {NULL, Some(404)}
            /\ NoEffects(rid)
    /\ \A s \in Sessions :
         (cur[s] # 0 /\ R(s).id \notin DOMAIN teams) => pc[s] = "getTeam"
    /\ \A i \in DOMAIN auditLogs : auditLogs[i].teamId \in DOMAIN teams
    /\ \A i \in DOMAIN outbox : outbox[i].msg.teamId \in DOMAIN teams

C4_Witness ==
    \E rid \in Rids :
        /\ reqs[rid].id = MissingId
        /\ resps[rid] = Some(404)
        /\ \E other \in Rids : SendsBy(other) # {}

\* C5: once a VERIFY of a PENDING team has been answered, the team reads
\* VERIFIED with verifiedAt and qrCodeUrl set, whatever failed on the way.
C5_VerifiedHasArtifact ==
    \A rid \in Rids :
        ( /\ Responded(rid)
          /\ reqs[rid].body.status = "VERIFIED"
          /\ reqs[rid].statusAtArrival = "PENDING" )
        => LET row == teams[reqs[rid].id] IN
           /\ row.status = "VERIFIED"
           /\ ~IsNull(row.verifiedAt)
           /\ ~IsNull(row.qrCodeUrl)

InTo(email, to) == \E k \in 1..Len(to) : to[k] = email

MemberEmails(t) == {members[t][k].email : k \in 1..Len(members[t])}

\* C7 as stated: a REJECT issues one sendEmail call, to the contactEmail
\* only, and no address of a member row is among the recipients; no QR image
\* is uploaded and nothing is attached.
C7_RejectNoMemberAddress ==
    \A i \in DOMAIN outbox :
        LET m == outbox[i].msg IN
        reqs[m.req].body.status = "REJECTED" =>
           /\ m.to = <<teams[m.teamId].contactEmail>>
           /\ \A e \in MemberEmails(m.teamId) : ~InTo(e, m.to)
           /\ m.attachments = <<>>
           /\ MintsBy(m.req) = {}

\* C7 amended: a REJECT issues at most one sendEmail call, exactly one when
\* answered 200; its recipient list is the contactEmail alone, so a member
\* address is a recipient only if it is the contactEmail; no QR image is
\* uploaded and nothing is attached.
C7_RejectNotifiesContactOnly ==
    /\ \A rid \in Rids :
         reqs[rid].body.status = "REJECTED" =>
            /\ Cardinality(SendsBy(rid)) <= 1
            /\ resps[rid] = Some(200) => Cardinality(SendsBy(rid)) = 1
            /\ MintsBy(rid) = {}
    /\ \A i \in DOMAIN outbox :
         LET m == outbox[i].msg IN
         reqs[m.req].body.status = "REJECTED" =>
            /\ m.to = <<teams[m.teamId].contactEmail>>
            /\ \A e \in MemberEmails(m.teamId) :
                 InTo(e, m.to) => e = teams[m.teamId].contactEmail
            /\ m.attachments = <<>>
            /\ IsNull(m.qr)

C7_Witness ==
    \E i \in DOMAIN outbox :
        /\ outbox[i].msg.teamId = "t1"
        /\ reqs[outbox[i].msg.req].body.status = "REJECTED"
        /\ outbox[i].delivered
        /\ resps[outbox[i].msg.req] = Some(200)
        /\ teams["t1"].status = "REJECTED"

\* C8: the decision audit entries of a team never outnumber its status
\* transitions, and when no request is in flight every transition has its
\* entry: the two counts are equal.
C8_OneAuditPerTransition ==
    \A t \in DOMAIN teams :
        /\ Cardinality(DecisionAudits(t)) <= Cardinality(Transitions(t))
        /\ Quiescent => Cardinality(DecisionAudits(t)) = Cardinality(Transitions(t))

\* the step is a sendEmail call that throws
EmailFails ==
    /\ Len(outbox') = Len(outbox) + 1
    /\ ~outbox'[Len(outbox')].delivered

\* C9: a failing notification rolls nothing back: the step in which sendEmail
\* throws leaves the teams and audit tables as they are, the team stays
\* decided and the request's audit entry stays in the log; and no step at all
\* returns a decided team to PENDING.
C9_FailedEmailKeepsDecision ==
    [][ /\ EmailFails =>
            LET m == outbox'[Len(outbox')].msg IN
            /\ teams' = teams
            /\ auditLogs' = auditLogs
            /\ teams'[m.teamId].status \in {"VERIFIED", "REJECTED"}
            /\ \E i \in DOMAIN auditLogs' :
                 /\ auditLogs'[i].req = m.req
                 /\ auditLogs'[i].teamId = m.teamId
                 /\ auditLogs'[i].action = m.kind
        /\ \A t \in DOMAIN teams :
             teams[t].status # "PENDING" => teams'[t].status # "PENDING" ]_vars

C9_Witness ==
    \E i \in DOMAIN outbox :
        LET m == outbox[i].msg IN
        /\ ~outbox[i].delivered
        /\ resps[m.req] = Some(500)
        /\ teams[m.teamId].status = reqs[m.req].body.status
        /\ \E k \in DOMAIN auditLogs :
             auditLogs[k].req = m.req /\ auditLogs[k].action = m.kind

\* C10: a failing notification is recorded in the store: the step in which
\* sendEmail throws (the handler's last) writes to the teams table or appends
\* to the audit log.
C10_FailedEmailIsRecorded ==
    [][EmailFails => (teams' # teams \/ auditLogs' # auditLogs)]_vars

\* C11: a retry of a request that failed after its status write repeats
\* nothing that was done: a request with the same id and body as an earlier
\* one answered 500 writes no status, appends no decision audit entry, and
\* uploads no QR image if the earlier one uploaded one.
C11_RetryRepeatsNothing ==
    \A r1, r2 \in Rids :
        ( /\ r1 < r2
          /\ reqs[r1].id = reqs[r2].id
          /\ reqs[r1].body = reqs[r2].body
          /\ resps[r1] = Some(GenericFailure)
          /\ WritesBy(r1) # {} )
        => /\ WritesBy(r2) = {}
           /\ AuditsBy(r2) = {}
           /\ MintsBy(r1) # {} => MintsBy(r2) = {}

\* the step ends the handler of session s inside generateQRCode
QrFails(s) == pc[s] \in {"qrRender", "qrUpload"} /\ pc'[s] = "idle"

\* C12: when QR rendering or upload fails, the team is not left VERIFIED
\* without a QR reference behind the generic failure response: the team is
\* still PENDING, or the response differs from the one every other error
\* gets, or the store records the missing artifact in that step.
C12_QrFailureSurfaced ==
    [][\A s \in Sessions :
          QrFails(s) =>
             LET rid == cur[s]
                 id == reqs[rid].id IN
             \/ teams'[id].status = "PENDING"
             \/ resps'[rid] # Some(GenericFailure)
             \/ teams' # teams
             \/ auditLogs' # auditLogs]_vars

\* C19: the QR payload uploaded for a team is the record of its teamId,
\* teamName and category with verified true and nothing else, so two
\* verifications of the same team upload equal payloads whatever their time,
\* note and admin.
C19_QrPayloadPure ==
    \A i \in DOMAIN blobs :
        LET d == blobs[i].data IN
        /\ d.teamId = reqs[blobs[i].req].id
        /\ d = [teamId |-> d.teamId, teamName |-> teams[d.teamId].teamName,
                category |-> teams[d.teamId].category, verified |-> TRUE]
        /\ \A j \in DOMAIN blobs : blobs[j].data.teamId = d.teamId => blobs[j].data = d

C19_Witness ==
    \E i, j \in DOMAIN blobs :
        /\ i < j
        /\ blobs[i].data.teamId = blobs[j].data.teamId
        /\ reqs[blobs[i].req].body.note # reqs[blobs[j].req].body.note
        /\ Cardinality(WritesBy(blobs[i].req) \cup WritesBy(blobs[j].req)) = 2

----------------------------------------------------------------------------
(* The other routes of the server: registration, settings, gallery, and  *)
(* the team list of the dashboard.  A route starts when no status update *)
(* and no registration is in flight; the team list is read at any time.  *)

\* route invocations in one behaviour
MaxOps == 2

\* gen_random_uuid() of the rows inserted by registrations, in order
NewIds == <<"t3", "t4", "t5">>

\* z.number().min(2) and .max(4) of memberCount, z.array().min(2).max(4) of members
MinMembers == 2

MaxMembers == 4

\* the columns a registration may fill: insertTeamSchema after .omit(), and members
SchemaKeys ==
    {"teamName", "category", "projectTitle", "contactEmail", "memberCount", "members"}

\* the member lists a payload carries
MemberLists ==
    {<<[email |-> "a@gamma"], [email |-> "b@gamma"]>>,
     <<[email |-> "a@gamma"], [email |-> "b@gamma"], [email |-> "c@gamma"]>>}

\* the form of the website, filled in
Form(count, ms) ==
    [teamName |-> "Gamma", category |-> "SOFTWARE", projectTitle |-> "Project Three",
     contactEmail |-> "lead@gamma", memberCount |-> count, members |-> ms]

\* the same form with the columns of a decided team written into the JSON by hand
Forged(count, ms) ==
    [teamName |-> "Gamma", category |-> "SOFTWARE", projectTitle |-> "Project Three",
     contactEmail |-> "lead@gamma", memberCount |-> count, members |-> ms,
     status |-> "VERIFIED", verificationNote |-> Some("self"),
     qrCodeUrl |-> Some("forged-qr"), verifiedAt |-> Some(0),
     verifiedBy |-> Some("nobody")]

\* the JSON documents POSTed to /api/register
Payloads ==
    UNION {{Form(c, ms), Forged(c, ms)} : c \in {2, 5}, ms \in MemberLists}

\* registrationSchema accepts the document
registrationValid(data) ==
    /\ data.memberCount >= MinMembers
    /\ data.memberCount <= MaxMembers
    /\ Len(data.members) >= MinMembers
    /\ Len(data.members) <= MaxMembers

\* a schema that lets every key of the document through
registrationSchema_passthrough(data) == data

\* registrationSchema.parse: a zod object drops the keys it does not declare
registrationSchema(data) == [k \in DOMAIN data \cap SchemaKeys |-> data[k]]

\* DatabaseStorage.createTeam: INSERT of the given columns; a column that is
\* not given takes its default (status PENDING) or NULL
createTeam(insertTeam) ==
    LET col(k, default) == IF k \in DOMAIN insertTeam THEN insertTeam[k] ELSE default IN
    [teamName |-> insertTeam.teamName, category |-> insertTeam.category,
     projectTitle |-> insertTeam.projectTitle,
     contactEmail |-> insertTeam.contactEmail,
     memberCount |-> insertTeam.memberCount,
     status |-> col("status", "PENDING"),
     verificationNote |-> col("verificationNote", NULL),
     qrCodeUrl |-> col("qrCodeUrl", NULL),
     verifiedAt |-> col("verifiedAt", NULL),
     verifiedBy |-> col("verifiedBy", NULL)]

\* DatabaseStorage.createMembers: one row for each member of the list
createMembers(teamId, insertMembers) ==
    [i \in DOMAIN insertMembers |-> MemberRow(teamId, insertMembers[i].email)]

\* the id the next INSERT INTO teams generates
NextId == NewIds[Cardinality(DOMAIN teams) - Cardinality(TeamIds) + 1]

\* no status update and no registration in flight
AppIdle == Quiescent /\ reg.pc = "idle"

\* a route is invoked
Invoke ==
    /\ ops < MaxOps
    /\ ops' = ops + 1

\* what a step of the registration handler leaves alone
regFrame == <<blobs, statusLog, clock, reqs, resps, pc, cur, loc, settings, gate, view, client,
              sideVars>>

\* res.status(code): the registration r is answered and recorded
Answer(r, code) ==
    /\ regLog' = Append(regLog, [raw |-> r.raw[1], files |-> r.files[1],
                                 captcha |-> r.captcha, uploads |-> r.uploads,
                                 team |-> r.team, code |-> code])
    /\ reg' = NoRegistration

\* POST /api/register arrives: JSON.parse and registrationSchema.parse; a
\* ZodError is answered 400
Register ==
    /\ AppIdle
    /\ Invoke
    /\ Cardinality(DOMAIN teams) - Cardinality(TeamIds) < Len(NewIds)
    /\ \E raw \in Payloads, paymentFile \in BOOLEAN, extraFile \in BOOLEAN :
         LET r == [NoRegistration EXCEPT
                     !.raw = Some(raw),
                     !.files = Some([paymentFile |-> paymentFile,
                                     extraFile |-> extraFile])] IN
         IF registrationValid(raw)
         THEN /\ reg' = [r EXCEPT !.pc = "captcha",
                                  !.data = Some(registrationSchema(raw))]
              /\ UNCHANGED regLog
         ELSE Answer(r, 400)
    /\ UNCHANGED <<teams, members, auditLogs, outbox, gallery>>
    /\ UNCHANGED regFrame

\* VerifyCaptcha with the result of the captcha ignored
VerifyCaptcha_ignored ==
    /\ reg.pc = "captcha"
    /\ \E captchaValid \in BOOLEAN :
         LET r == [reg EXCEPT !.captcha = Some(captchaValid)] IN
         IF ~reg.files[1].paymentFile
         THEN Answer(r, 400)
         ELSE /\ reg' = [r EXCEPT !.pc = "uploadPayment"]
              /\ UNCHANGED regLog
    /\ UNCHANGED <<teams, members, auditLogs, outbox, gallery, ops>>
    /\ UNCHANGED regFrame

\* await verifyHCaptcha(captchaToken), then the test of files.paymentFile
VerifyCaptcha ==
    /\ reg.pc = "captcha"
    /\ \E captchaValid \in BOOLEAN :
         LET r == [reg EXCEPT !.captcha = Some(captchaValid)] IN
         IF ~captchaValid \/ ~reg.files[1].paymentFile
         THEN Answer(r, 400)
         ELSE /\ reg' = [r EXCEPT !.pc = "uploadPayment"]
              /\ UNCHANGED regLog
    /\ UNCHANGED <<teams, members, auditLogs, outbox, gallery, ops>>
    /\ UNCHANGED regFrame

\* await uploadToCloudinary(files.paymentFile[0], "payment-proofs")
UploadPayment ==
    /\ reg.pc = "uploadPayment"
    /\ \E ok \in BOOLEAN :
         IF ok
         THEN /\ reg' = [reg EXCEPT
                           !.uploads = @ + 1,
                           !.pc = IF reg.files[1].extraFile THEN "uploadExtra"
                                  ELSE "createTeam"]
              /\ UNCHANGED regLog
         ELSE Answer(reg, GenericFailure)
    /\ UNCHANGED <<teams, members, auditLogs, outbox, gallery, ops>>
    /\ UNCHANGED regFrame

\* await uploadToCloudinary(files.extraFile[0], "extra-docs")
UploadExtra ==
    /\ reg.pc = "uploadExtra"
    /\ \E ok \in BOOLEAN :
         IF ok
         THEN /\ reg' = [reg EXCEPT !.uploads = @ + 1, !.pc = "createTeam"]
              /\ UNCHANGED regLog
         ELSE Answer(reg, GenericFailure)
    /\ UNCHANGED <<teams, members, auditLogs, outbox, gallery, ops>>
    /\ UNCHANGED regFrame

\* const team = await storage.createTeam({...validatedData, ...})
CreateTeam ==
    /\ reg.pc = "createTeam"
    /\ LET id == NextId IN
       /\ teams' = [t \in DOMAIN teams \cup {id} |->
                      IF t = id THEN createTeam(reg.data[1]) ELSE teams[t]]
       /\ gallery' = [t \in DOMAIN gallery \cup {id} |->
                        IF t = id THEN FALSE ELSE gallery[t]]
       /\ reg' = [reg EXCEPT !.team = Some(id), !.pc = "createMembers"]
    /\ UNCHANGED <<members, auditLogs, outbox, regLog, ops>>
    /\ UNCHANGED regFrame

\* await storage.createMembers(team.id, validatedData.members)
CreateMembers ==
    /\ reg.pc = "createMembers"
    /\ LET id == reg.team[1] IN
       members' = [t \in DOMAIN members \cup {id} |->
                     IF t = id THEN createMembers(id, reg.data[1].members)
                     ELSE members[t]]
    /\ reg' = [reg EXCEPT !.pc = "auditLog"]
    /\ UNCHANGED <<teams, auditLogs, outbox, gallery, regLog, ops>>
    /\ UNCHANGED regFrame

\* await storage.createAuditLog(team.id, "TEAM_REGISTERED", "system", ...)
RegisterAudit ==
    /\ reg.pc = "auditLog"
    /\ auditLogs' = createAuditLog(auditLogs,
                                   [teamId |-> reg.team[1],
                                    action |-> "TEAM_REGISTERED",
                                    performedBy |-> "system",
                                    details |-> Some("Team registered via website"),
                                    req |-> 0])
    /\ reg' = [reg EXCEPT !.pc = "sendEmail"]
    /\ UNCHANGED <<teams, members, outbox, gallery, regLog, ops>>
    /\ UNCHANGED regFrame

\* await sendEmail([organizerEmail], ...), then 201; a failed call is
\* caught and answered 500
OrganizerAlert ==
    /\ reg.pc = "sendEmail"
    /\ \E ok \in BOOLEAN :
         /\ outbox' = Append(outbox,
                             [msg |-> [to |-> <<"Sm4686771@gmail.com">>,
                                       kind |-> "TEAM_REGISTERED",
                                       qr |-> NULL, note |-> NULL,
                                       attachments |-> <<>>,
                                       teamId |-> reg.team[1], req |-> 0],
                              delivered |-> ok])
         /\ Answer(reg, IF ok THEN 201 ELSE GenericFailure)
    /\ UNCHANGED <<teams, members, auditLogs, gallery, ops>>
    /\ UNCHANGED regFrame

\* What a status update presents to the middleware: the administrator of its
\* session (NULL without a login) and the CSRF token of its header.  "issued"
\* is the token GET /api/auth/csrf gave this session; that route wants a
\* login, so that a request without one has no such token.
Credentials ==
    {[session |-> NULL, token |-> NULL],
     [session |-> NULL, token |-> Some("stale")],
     [session |-> Some("admin-1"), token |-> NULL],
     [session |-> Some("admin-1"), token |-> Some("stale")],
     [session |-> Some("admin-1"), token |-> Some("issued")]}

\* a requireAuth that lets every request through
requireAuth_open(c) == TRUE

\* requireAuth: req.session?.adminId is set
requireAuth(c) == ~IsNull(c.session)

\* csrfProtection: the token of the request is the one issued to its session
csrfProtection(c) == c.token = Some("issued")

\* PATCH /api/admin/teams/:id/status reaches requireAuth, then
\* csrfProtection, then the handler: 401, 403, or the handler's first step
Arrive(s) ==
    /\ AppIdle
    /\ Invoke
    /\ s = CHOOSE x \in Sessions : pc[x] = "idle"
    /\ \E c \in Credentials :
         IF ~requireAuth(c)
         THEN /\ gate' = Append(gate, [cred |-> c, code |-> Some(401), rid |-> 0])
              /\ UNCHANGED coreVars
         ELSE IF ~csrfProtection(c)
         THEN /\ gate' = Append(gate, [cred |-> c, code |-> Some(403), rid |-> 0])
              /\ UNCHANGED coreVars
         ELSE /\ gate' = Append(gate, [cred |-> c, code |-> NULL,
                                       rid |-> Len(reqs) + 1])
              /\ Receive(s)
    /\ UNCHANGED <<settings, gallery, reg, regLog, view, client, sideVars>>

\* the values the admin console saves
SettingValues ==
    [k \in SettingKeys |->
       CASE k = "EVENT_DATE" -> "2025-12-01"
         [] k = "EVENT_TIME" -> "10:30"
         [] k = "EVENT_VENUE" -> "New Hall"
         [] k = "EVENT_ADDRESS" -> "1 New Road"]

\* DatabaseStorage.upsertSetting: UPDATE of the row of the key, INSERT
\* without one
upsertSetting(table, key, value) ==
    IF ~IsNull(table[key])
    THEN [table EXCEPT ![key] = Some(value)]
    ELSE [k \in DOMAIN table |-> IF k = key THEN Some(value) ELSE table[k]]

\* POST /api/admin/settings of a logged-in administrator, with one key
UpdateSettings ==
    /\ AppIdle
    /\ Invoke
    /\ \E key \in SettingKeys :
         settings' = upsertSetting(settings, key, SettingValues[key])
    /\ UNCHANGED <<coreVars, gallery, gate, reg, regLog, view, client, sideVars>>

\* PATCH /api/admin/teams/:id/gallery of a logged-in administrator
ToggleGallery ==
    /\ AppIdle
    /\ Invoke
    /\ \E id \in DOMAIN teams \cup {MissingId}, showInGallery \in BOOLEAN,
          admin \in Admins :
         IF IsNull(getTeamById(id))
         THEN UNCHANGED <<gallery, auditLogs>>
         ELSE /\ gallery' = [gallery EXCEPT ![id] = showInGallery]
              /\ auditLogs' = createAuditLog(auditLogs,
                                [teamId |-> id,
                                 action |-> IF showInGallery THEN "GALLERY_ENABLED"
                                            ELSE "GALLERY_DISABLED",
                                 performedBy |-> admin,
                                 details |-> Some(IF showInGallery THEN "enabled"
                                                  ELSE "disabled"),
                                 req |-> 0])
    /\ UNCHANGED <<teams, members, outbox, blobs, statusLog, clock, reqs, resps,
                   pc, cur, loc>>
    /\ UNCHANGED <<settings, gate, reg, regLog, view, client, sideVars>>

\* GET /api/admin/teams, whatever else is in flight: getAllTeams returns
\* every team with its member rows; the view keeps their number
ReadTeams ==
    /\ Invoke
    /\ view' = Some([t \in DOMAIN teams |-> Len(getMembersByTeamId(t))])
    /\ UNCHANGED <<coreVars, settings, gallery, gate, reg, regLog, client, sideVars>>

NextApp ==
    \/ \E s \in Sessions :
         \/ Arrive(s)
         \/ GetTeam(s)
         \/ UpdateStatus(s)
         \/ CreateAuditLog(s)
         \/ GetMembers(s)
         \/ RenderQr(s)
         \/ UploadQr(s)
         \/ UpdateQr(s)
         \/ SendEmail(s)
    \/ Register
    \/ VerifyCaptcha
    \/ UploadPayment
    \/ UploadExtra
    \/ CreateTeam
    \/ CreateMembers
    \/ RegisterAudit
    \/ OrganizerAlert
    \/ UpdateSettings
    \/ ToggleGallery
    \/ ReadTeams

SpecApp == Init /\ [][NextApp]_vars

----------------------------------------------------------------------------
(* C13.  The audit log is append-only: whatever route takes a step        *)
(* (registration, status update, gallery toggle, settings update), every  *)
(* audit entry that exists before the step exists unchanged, at the same  *)
(* place, after it; the entries of a team only grow.                      *)
C13_AuditAppendOnly ==
    [][\A i \in DOMAIN auditLogs :
          /\ i \in DOMAIN auditLogs'
          /\ auditLogs'[i] = auditLogs[i]]_vars

\* a team has two audit entries, written by two routes
C13_Witness ==
    \E i, j \in DOMAIN auditLogs :
        /\ i < j
        /\ auditLogs[i].teamId = auditLogs[j].teamId
        /\ auditLogs[i].action # auditLogs[j].action

(* C14.  For every team whose member rows are stored, memberCount is the  *)
(* number of these rows; no accepted registration breaks it, whatever     *)
(* memberCount and members list (both within 2..4) it carries.            *)
C14_MemberCountMatchesRows ==
    \A t \in DOMAIN members : teams[t].memberCount = Len(members[t])

(* C15.  Team and members are created atomically: in no state does a team *)
(* row exist without its member rows, and no response of GET              *)
(* /api/admin/teams shows a team without members.                         *)
C15_TeamNeverWithoutMembers ==
    /\ \A t \in DOMAIN teams : Len(getMembersByTeamId(t)) > 0
    /\ ~IsNull(view) => \A t \in DOMAIN view[1] : view[1][t] > 0

(* C16.  A team row created by a registration has status PENDING and null *)
(* qrCodeUrl, verifiedAt and verifiedBy, whatever keys the payload holds; *)
(* and a status leaves PENDING only in the UPDATE of a status update that *)
(* passed the administrator's middleware, which sets the decision asked.  *)
C16_FreshTeamPending ==
    [][/\ \A t \in DOMAIN teams' \ DOMAIN teams :
            /\ teams'[t].status = "PENDING"
            /\ IsNull(teams'[t].qrCodeUrl)
            /\ IsNull(teams'[t].verifiedAt)
            /\ IsNull(teams'[t].verifiedBy)
       /\ \A t \in DOMAIN teams :
            (teams[t].status = "PENDING" /\ teams'[t].status # "PENDING")
            => \E s \in Sessions :
                 /\ pc[s] = "updateStatus"
                 /\ pc'[s] = "auditLog"
                 /\ reqs[cur[s]].id = t
                 /\ teams'[t].status = reqs[cur[s]].body.status
                 /\ \E i \in DOMAIN gate :
                      gate[i].rid = cur[s] /\ ~IsNull(gate[i].cred.session)]_vars

\* a payload that names itself VERIFIED was accepted and its team is PENDING,
\* while an administrator has decided another team
C16_Witness ==
    /\ \E i \in DOMAIN regLog :
         /\ "status" \in DOMAIN regLog[i].raw
         /\ regLog[i].raw.status = "VERIFIED"
         /\ regLog[i].code = 201
         /\ teams[regLog[i].team[1]].status = "PENDING"
         /\ IsNull(teams[regLog[i].team[1]].qrCodeUrl)
    /\ \E t \in DOMAIN teams : teams[t].status # "PENDING"

(* C17.  A status update changes state only for a logged-in administrator *)
(* with a valid CSRF token: without a session adminId it is answered 401, *)
(* without the issued token 403, in both cases before the handler, so     *)
(* that every status write, decision audit entry, QR image and            *)
(* notification belongs to a request that passed both tests.              *)
C17_GateBeforeHandler ==
    /\ \A i \in DOMAIN gate :
         LET g == gate[i] IN
         /\ IsNull(g.cred.session) => (g.code = Some(401) /\ g.rid = 0)
         /\ (~IsNull(g.cred.session) /\ g.cred.token # Some("issued"))
            => (g.code = Some(403) /\ g.rid = 0)
    /\ \A rid \in Rids :
         \E i \in DOMAIN gate :
            /\ gate[i].rid = rid
            /\ ~IsNull(gate[i].cred.session)
            /\ gate[i].cred.token = Some("issued")
    /\ \A i \in DOMAIN statusLog : statusLog[i].req \in Rids
    /\ \A i \in DOMAIN blobs : blobs[i].req \in Rids
    /\ \A i \in DOMAIN auditLogs :
         auditLogs[i].action \in {"TEAM_VERIFIED", "TEAM_REJECTED"}
         => auditLogs[i].req \in Rids
    /\ \A i \in DOMAIN outbox :
         outbox[i].msg.kind \in {"TEAM_VERIFIED", "TEAM_REJECTED"}
         => outbox[i].msg.req \in Rids
    /\ Len(statusLog) <= Cardinality({i \in DOMAIN gate : gate[i].rid # 0})

\* one status update was turned away by the middleware and changed nothing;
\* another passed it and wrote its decision
C17_Witness ==
    \E i, j \in DOMAIN gate :
        /\ ~IsNull(gate[i].code)
        /\ gate[j].rid # 0
        /\ WritesBy(gate[j].rid) # {}
        /\ Len(statusLog) = 1

\* the date and the time of day of a setting, as createEvent takes them
DateOf(v) == IF v = "2025-12-01" THEN <<2025, 12, 1>> ELSE <<2025, 11, 25>>

TimeOf(v) == IF v = "10:30" THEN <<10, 30>> ELSE <<9, 0>>

\* session s sends the e-mail of a verification
SendsVerification(s) ==
    /\ pc[s] = "sendEmail"
    /\ pc'[s] = "idle"
    /\ reqs[cur[s]].body.status = "VERIFIED"

(* C20.  The calendar attached to a verification e-mail is built from the *)
(* event settings in force when it is sent: its day is EVENT_DATE, its    *)
(* time of day EVENT_TIME and its location EVENT_VENUE, for each of these *)
(* settings that has a value.                                             *)
C20_CalendarFollowsSettings ==
    [][\A s \in Sessions :
          SendsVerification(s) =>
          LET ics == outbox'[Len(outbox')].msg.attachments[1].content IN
          /\ ~IsNull(settings["EVENT_DATE"])
             => SubSeq(ics.start, 1, 3) = DateOf(settings["EVENT_DATE"][1])
          /\ ~IsNull(settings["EVENT_TIME"])
             => SubSeq(ics.start, 4, 5) = TimeOf(settings["EVENT_TIME"][1])
          /\ ~IsNull(settings["EVENT_VENUE"])
             => ics.location = settings["EVENT_VENUE"][1]]_vars

----------------------------------------------------------------------------
(* The browser: one call of apiRequest (client/src/lib/queryClient.ts).   *)
(* The server is any server: every fetch is answered with any status or   *)
(* fails in the network.                                                  *)

\* fetches of one call the model follows; the code has no such limit
MaxSends == 3

Methods == {"GET", "POST", "PATCH", "PUT", "DELETE"}

\* the HTTP statuses a fetch resolves with
Statuses == {200, 201, 400, 401, 403, 404, 500}

\* Response.ok
ResOk(status) == status >= 200 /\ status <= 299

\* the requests and the state of the server stand still
clientFrame == <<coreVars, appVars, sideVars>>

\* apiRequest(method, url, data) is called; csrfToken is the module's
\* variable, null before a login
Call ==
    /\ client.pc = "idle"
    /\ \E method \in Methods, token \in {NULL, Some("stale")} :
         client' = [pc |-> "fetch", method |-> method, retryOn403 |-> TRUE,
                    csrfToken |-> token, sends |-> 0, refreshes |-> 0,
                    sent |-> <<>>, seen |-> <<>>, error |-> NULL]
    /\ UNCHANGED clientFrame

\* Fetch with GET treated as every other method
Fetch_anyMethod ==
    /\ client.pc = "fetch"
    /\ client.sends < MaxSends
    /\ LET header == IF ~IsNull(client.csrfToken) THEN client.csrfToken ELSE NULL
           c == [client EXCEPT !.sends = @ + 1, !.sent = Append(@, header)] IN
       \/ client' = [c EXCEPT !.pc = "thrown", !.error = Some(0)]
       \/ \E status \in Statuses :
            client' = [c EXCEPT
                         !.seen = Append(@, status),
                         !.error = IF ResOk(status) \/ (status = 403 /\ c.retryOn403)
                                   THEN NULL ELSE Some(status),
                         !.pc = IF status = 403 /\ c.retryOn403
                                THEN "refresh"
                                ELSE IF ResOk(status) THEN "returned"
                                ELSE "thrown"]
    /\ UNCHANGED clientFrame

\* await fetch(url, ...) and the tests on its response: a 403 of a
\* mutating call that may retry goes on to the token refresh; otherwise
\* throwIfResNotOk throws `${res.status}: ...` or the response is returned.
\* Field error is the status in the Error thrown, 0 when fetch itself rejects.
Fetch ==
    /\ client.pc = "fetch"
    /\ client.sends < MaxSends
    /\ LET header == IF ~IsNull(client.csrfToken) /\ client.method # "GET"
                     THEN client.csrfToken ELSE NULL
           c == [client EXCEPT !.sends = @ + 1, !.sent = Append(@, header)] IN
       \/ client' = [c EXCEPT !.pc = "thrown", !.error = Some(0)]
       \/ \E status \in Statuses :
            client' = [c EXCEPT
                         !.seen = Append(@, status),
                         !.error = IF \/ ResOk(status)
                                      \/ (status = 403 /\ c.retryOn403 /\ c.method # "GET")
                                   THEN NULL ELSE Some(status),
                         !.pc = IF status = 403 /\ c.retryOn403 /\ c.method # "GET"
                                THEN "refresh"
                                ELSE IF ResOk(status) THEN "returned"
                                ELSE "thrown"]
    /\ UNCHANGED clientFrame

\* Refresh with a retry that may retry again
Refresh_retryAgain ==
    /\ client.pc = "refresh"
    /\ LET c == [client EXCEPT !.refreshes = @ + 1] IN
       \/ client' = [c EXCEPT !.csrfToken = Some("fresh"), !.pc = "fetch"]
       \/ client' = [c EXCEPT !.pc = "thrown", !.error = Some(c.seen[Len(c.seen)])]
    /\ UNCHANGED clientFrame

\* await fetch("/api/auth/csrf"): with an ok response the token is stored
\* and the request is made again with retryOn403 = false; with another
\* response, or an exception, the 403 is thrown
Refresh ==
    /\ client.pc = "refresh"
    /\ LET c == [client EXCEPT !.refreshes = @ + 1] IN
       \/ client' = [c EXCEPT !.csrfToken = Some("fresh"), !.retryOn403 = FALSE,
                              !.pc = "fetch"]
       \/ client' = [c EXCEPT !.pc = "thrown", !.error = Some(c.seen[Len(c.seen)])]
    /\ UNCHANGED clientFrame

NextClient ==
    \/ Call
    \/ Fetch
    \/ Refresh

\* a fetch settles: it resolves or it rejects
SpecClient == Init /\ [][NextClient]_vars /\ WF_vars(NextClient)

(* C18.  apiRequest retries at most once: whatever the server answers, a  *)
(* call sends its request at most twice and refreshes the CSRF token at   *)
(* most once, and a call that has started ends by returning a response or *)
(* by throwing.                                                           *)
C18_BoundedRetry ==
    /\ [](client.pc # "idle" => (client.sends <= 2 /\ client.refreshes <= 1))
    /\ (client.pc = "fetch") ~> (client.pc \in {"returned", "thrown"})

\* a mutating call that was answered 403 twice: one refresh, two sends, thrown
C18_Witness ==
    /\ client.pc = "thrown"
    /\ client.method # "GET"
    /\ client.seen = <<403, 403>>
    /\ client.sends = 2
    /\ client.refreshes = 1

----------------------------------------------------------------------------
\* session s runs the UPDATE of its status update on an existing team
WritesStatus(s) ==
    /\ pc[s] = "updateStatus"
    /\ pc'[s] = "auditLog"
    /\ reqs[cur[s]].id \in DOMAIN teams

(* C23.  The UPDATE of a VERIFY leaves verifiedBy equal to the session's  *)
(* adminEmail and verificationNote equal to the note of the request; the  *)
(* UPDATE of a REJECT leaves verificationNote equal to the note of the    *)
(* request and verifiedAt and verifiedBy unset.                           *)
C23_DecisionFieldsPersisted ==
    [][\A s \in Sessions :
          WritesStatus(s) =>
          LET r == reqs[cur[s]]
              row == teams'[r.id] IN
          /\ row.verificationNote = r.body.note
          /\ r.body.status = "VERIFIED" => row.verifiedBy = r.adminEmail
          /\ r.body.status = "REJECTED"
             => (IsNull(row.verifiedAt) /\ IsNull(row.verifiedBy))]_vars

(* C24.  On VERIFY the TEAM_VERIFIED audit entry is the last step: it is  *)
(* never in the log before the notification of its request has been       *)
(* dispatched, nor before its QR image has been stored.                   *)
C24_AuditAfterNotification ==
    \A i \in DOMAIN auditLogs :
        auditLogs[i].action = "TEAM_VERIFIED"
        => /\ SendsBy(auditLogs[i].req) # {}
           /\ MintsBy(auditLogs[i].req) # {}

(* C27.  Only a VERIFIED team has a qrCodeUrl, a verifiedAt or a          *)
(* verifiedBy; no PENDING or REJECTED team carries a QR reference.        *)
C27_ArtifactsOnlyOnVerified ==
    \A t \in DOMAIN teams :
        teams[t].status # "VERIFIED"
        => /\ IsNull(teams[t].qrCodeUrl)
           /\ IsNull(teams[t].verifiedAt)
           /\ IsNull(teams[t].verifiedBy)

(* C29.  A status update is answered 200 only if its status write, its    *)
(* audit entry and a delivered notification exist and, for VERIFIED, its  *)
(* QR image is uploaded and a QR reference is on the team.  A body the    *)
(* schema refuses is answered 400, a missing team 404, and every other    *)
(* answer that is not 200 is 500; a failed notification is never 200.     *)
C29_OkOnlyWhenComplete ==
    \A rid \in Rids :
        Responded(rid) =>
        LET r == reqs[rid]
            code == resps[rid][1] IN
        /\ code \in {200, 400, 404, GenericFailure}
        /\ code = 400 <=> ~updateTeamStatusSchema(r.body)
        /\ code = 404 => NoEffects(rid)
        /\ (\E i \in SendsBy(rid) : ~outbox[i].delivered) => code = GenericFailure
        /\ code = 200
           => /\ WritesBy(rid) # {}
              /\ AuditsBy(rid) # {}
              /\ \E i \in SendsBy(rid) : outbox[i].delivered
              /\ r.body.status = "VERIFIED"
                 => /\ MintsBy(rid) # {}
                    /\ ~IsNull(teams[r.id].qrCodeUrl)

\* one verification answered 200 with everything done, and one status
\* update whose notification failed, answered 500
C29_Witness ==
    \E r1, r2 \in Rids :
        /\ resps[r1] = Some(200)
        /\ reqs[r1].body.status = "VERIFIED"
        /\ MintsBy(r1) # {}
        /\ resps[r2] = Some(GenericFailure)
        /\ \E i \in SendsBy(r2) : ~outbox[i].delivered

\* history: the teams that registrations have created
Registered == {regLog[i].team[1] : i \in {j \in DOMAIN regLog : ~IsNull(regLog[j].team)}}
                 \cup {reg.team[i] : i \in DOMAIN reg.team}

(* C28.  A registration refused by the schema, by the captcha or for a    *)
(* missing payment file is answered 400 and has created nothing: no team  *)
(* (so no member and no audit row of it), no organizer e-mail, no upload; *)
(* and no file is uploaded before the captcha has been found valid.       *)
C28_RejectedRegistrationNoEffects ==
    /\ \A i \in DOMAIN regLog :
         LET e == regLog[i] IN
         /\ ( \/ ~registrationValid(e.raw)
              \/ e.captcha = Some(FALSE)
              \/ ~e.files.paymentFile ) => e.code = 400
         /\ e.code = 400 => (IsNull(e.team) /\ e.uploads = 0)
         /\ e.captcha # Some(TRUE) => e.uploads = 0
    /\ reg.captcha # Some(TRUE) => reg.uploads = 0
    /\ DOMAIN teams = TeamIds \cup Registered
    /\ DOMAIN members \subseteq TeamIds \cup Registered
    /\ \A i \in DOMAIN auditLogs :
         auditLogs[i].action = "TEAM_REGISTERED" => auditLogs[i].teamId \in Registered
    /\ \A i \in DOMAIN outbox :
         outbox[i].msg.kind = "TEAM_REGISTERED" => outbox[i].msg.teamId \in Registered

\* one registration was refused for its captcha, another went through
C28_Witness ==
    \E i, j \in DOMAIN regLog :
        /\ regLog[i].captcha = Some(FALSE)
        /\ regLog[i].files.paymentFile
        /\ regLog[i].code = 400
        /\ regLog[j].code = 201
        /\ Cardinality(DOMAIN teams) = Cardinality(TeamIds) + 1

\* the token refresh of the call failed: one send, one refresh, thrown
RefreshFailed ==
    /\ client.pc = "thrown"
    /\ client.refreshes = 1
    /\ client.sends = 1

----------------------------------------------------------------------------
(* POST /api/admin/settings of two administrators at once.  upsertSetting *)
(* is a SELECT followed by an UPDATE or an INSERT; column key is unique.  *)

\* requests that save settings in one behaviour
MaxSaves == 3

\* the values a request may save for a key
ValuesOf(key) == {SettingValues[key], "TBA"}

\* DatabaseStorage.getSetting
getSetting(table, key) == table[key]

\* the page, the registrations and the server start stand still
upsFrame == <<coreVars, gallery, gate, reg, regLog, view, ops, client, page, admins, boot>>

\* the request arrives with one key in its body; upsertSetting begins
SaveSettings(c) ==
    /\ ups.call[c].pc = "idle"
    /\ Len(ups.log) + Cardinality({x \in Callers : ups.call[x].pc # "idle"}) < MaxSaves
    /\ \E key \in SettingKeys :
         \E value \in ValuesOf(key) :
            ups' = [ups EXCEPT !.call[c] = [pc |-> "get", key |-> Some(key),
                                            value |-> Some(value)]]
    /\ UNCHANGED settings
    /\ UNCHANGED upsFrame

\* const existing = await this.getSetting(insertSetting.key)
GetSetting(c) ==
    /\ ups.call[c].pc = "get"
    /\ ups' = [ups EXCEPT !.call[c].pc =
                 IF ~IsNull(getSetting(settings, ups.call[c].key[1])) THEN "update"
                 ELSE "insert"]
    /\ UNCHANGED settings
    /\ UNCHANGED upsFrame

\* db.update(eventSettings).set({value}).where(key = ...), or
\* db.insert(eventSettings).values(insertSetting): the INSERT of a key that
\* has a row by now breaks the unique constraint and throws, which the route
\* answers 500
WriteSetting(c) ==
    /\ ups.call[c].pc \in {"update", "insert"}
    /\ LET key == ups.call[c].key[1]
           value == ups.call[c].value[1]
           ok == ups.call[c].pc = "update" \/ IsNull(settings[key]) IN
       /\ settings' = IF ok THEN [settings EXCEPT ![key] = Some(value)] ELSE settings
       /\ ups' = [ups EXCEPT
                    !.call[c] = NoUpsert,
                    !.log = Append(@, [caller |-> c, key |-> key, value |-> value,
                                       code |-> IF ok THEN 200 ELSE GenericFailure])]
    /\ UNCHANGED upsFrame

NextSettings ==
    \E c \in Callers :
        \/ SaveSettings(c)
        \/ GetSetting(c)
        \/ WriteSetting(c)

SpecSettings == Init /\ [][NextSettings]_vars

\* history: the answered writes of a key, in the order they completed
WritesOf(key) == {i \in DOMAIN ups.log : ups.log[i].key = key}

(* C21.  Event settings are a last-write-wins mapping: whatever the       *)
(* interleaving of upsertSetting calls, every call succeeds, and when     *)
(* none is in flight a key that was written has a row whose value is that *)
(* of the write that completed last.                                      *)
C21_LastWriteWins ==
    /\ \A i \in DOMAIN ups.log : ups.log[i].code = 200
    /\ (\A c \in Callers : ups.call[c].pc = "idle")
       => \A key \in SettingKeys :
            WritesOf(key) # {}
            => LET last == CHOOSE i \in WritesOf(key) : \A j \in WritesOf(key) : j <= i IN
               settings[key] = Some(ups.log[last].value)

----------------------------------------------------------------------------
(* Server start: registerRoutes awaits initializeAdmin.  Two processes    *)
(* may start on one database; column email of table admins is unique.     *)

\* starts of a process in one behaviour
MaxBoots == 3

\* const adminEmail = "Sm4686771@gmail.com"
adminEmail == "Sm4686771@gmail.com"

\* bcrypt.hash(adminPassword, 10) draws a salt: a hash of the same password
Hashes == {"$2b$10$salt1", "$2b$10$salt2"}

\* DatabaseStorage.getAdminByEmail
getAdminByEmail(email) ==
    IF \E k \in DOMAIN admins : admins[k].email = email
    THEN Some(admins[CHOOSE k \in DOMAIN admins : admins[k].email = email])
    ELSE NULL

\* everything but the table admins and the processes stands still
bootFrame == <<coreVars, appVars, client, page, ups>>

\* the process starts (again): initializeAdmin is called
Start(i) ==
    /\ boot[i].pc \in {"down", "up", "failed"}
    /\ boot[i].starts < MaxBoots
    /\ boot' = [boot EXCEPT ![i] = [pc |-> "check", starts |-> @.starts + 1,
                                    hash |-> NULL]]
    /\ UNCHANGED admins
    /\ UNCHANGED bootFrame

\* const existingAdmin = await storage.getAdminByEmail(adminEmail)
GetAdmin(i) ==
    /\ boot[i].pc = "check"
    /\ boot' = [boot EXCEPT ![i].pc =
                  IF IsNull(getAdminByEmail(adminEmail)) THEN "hash" ELSE "up"]
    /\ UNCHANGED admins
    /\ UNCHANGED bootFrame

\* const hashedPassword = await bcrypt.hash(adminPassword, 10)
HashPassword(i) ==
    /\ boot[i].pc = "hash"
    /\ \E h \in Hashes :
         boot' = [boot EXCEPT ![i].pc = "create", ![i].hash = Some(h)]
    /\ UNCHANGED admins
    /\ UNCHANGED bootFrame

\* CreateAdmin as INSERT ... ON CONFLICT (email) DO UPDATE SET password
CreateAdmin_overwrite(i) ==
    /\ boot[i].pc = "create"
    /\ admins' = IF IsNull(getAdminByEmail(adminEmail))
                 THEN Append(admins, [email |-> adminEmail, password |-> boot[i].hash[1]])
                 ELSE [k \in DOMAIN admins |->
                         IF admins[k].email = adminEmail
                         THEN [admins[k] EXCEPT !.password = boot[i].hash[1]]
                         ELSE admins[k]]
    /\ boot' = [boot EXCEPT ![i].pc = "up"]
    /\ UNCHANGED bootFrame

\* await storage.createAdmin({email, password}): the INSERT of an email
\* that has a row by now breaks the unique constraint; registerRoutes
\* rejects and the process does not come up
CreateAdmin(i) ==
    /\ boot[i].pc = "create"
    /\ IF IsNull(getAdminByEmail(adminEmail))
       THEN /\ admins' = Append(admins, [email |-> adminEmail,
                                         password |-> boot[i].hash[1]])
            /\ boot' = [boot EXCEPT ![i].pc = "up"]
       ELSE /\ UNCHANGED admins
            /\ boot' = [boot EXCEPT ![i].pc = "failed"]
    /\ UNCHANGED bootFrame

NextBoot ==
    \E i \in Instances :
        \/ Start(i)
        \/ GetAdmin(i)
        \/ HashPassword(i)
        \/ CreateAdmin(i)

SpecBoot == Init /\ [][NextBoot]_vars

\* the rows of the default administrator
DefaultAdmins == {k \in DOMAIN admins : admins[k].email = adminEmail}

(* C22.  Admin bootstrap is idempotent: there is never more than one row  *)
(* with the default email, there is exactly one once a process has been   *)
(* through initializeAdmin, and no step changes or removes an existing    *)
(* row, so that its password hash is never overwritten.                   *)
C22_BootstrapIdempotent ==
    /\ [](/\ Cardinality(DefaultAdmins) <= 1
          /\ (\E i \in Instances : boot[i].pc \in {"up", "failed"})
             => Cardinality(DefaultAdmins) = 1)
    /\ [][\A k \in DOMAIN admins :
             /\ k \in DOMAIN admins'
             /\ admins'[k] = admins[k]]_vars

\* a process came up a second time, and the other one lost the race of
\* the first start: one row
C22_Witness ==
    /\ \E i \in Instances : boot[i].starts >= 2 /\ boot[i].pc = "up"
    /\ \E i \in Instances : boot[i].pc = "failed"
    /\ Len(admins) = 1

----------------------------------------------------------------------------
(* The Register page (client/src/pages/Register.tsx): the wizard, the     *)
(* draft in localStorage and the submission.  A handler on the screen     *)
(* belongs to the last render and reads that render's currentStep; the    *)
(* state itself is changed by functional updates.  Timers and promises    *)
(* run when the event loop takes them.                                    *)

\* clicks on Next and Back in one behaviour
MaxClicks == 4

\* changes of a form field in one behaviour
MaxEdits == 2

LastStep == Len(STEPS) - 1

\* getStepFields(step) is not empty: the steps Team Details and Members
getStepFields(step) == step \in {0, 1}

Min(a, b) == IF a < b THEN a ELSE b

Max(a, b) == IF a > b THEN a ELSE b

\* the page is on the screen: navigate("/thanks") has not replaced it
Mounted == page.mutation # "success"

Clicks == Len(page.moves) + Len(page.calls)

\* the server, the other browser calls and the server start stand still
pageFrame == <<coreVars, appVars, client, ups, admins, boot>>

\* React renders the page again after a change of currentStep
Render ==
    /\ Mounted
    /\ page.shown # page.currentStep
    /\ page' = [page EXCEPT !.shown = page.currentStep]
    /\ UNCHANGED pageFrame

\* click on Next (on the screen while currentStep < STEPS.length - 1):
\* nextStep reads getStepFields(currentStep) and awaits form.trigger(fields)
NextClick ==
    /\ Mounted
    /\ page.shown < LastStep
    /\ Clicks < MaxClicks
    /\ page' = [page EXCEPT !.calls = Append(@, page.shown)]
    /\ UNCHANGED pageFrame

\* form.trigger resolves: if (isValid) setCurrentStep((prev) =>
\* Math.min(prev + 1, STEPS.length - 1)).  The uploads step has no fields
\* and is always valid.
NextResolve ==
    /\ page.calls # <<>>
    /\ \E isValid \in (IF getStepFields(Head(page.calls)) THEN BOOLEAN ELSE {TRUE}) :
         LET to == IF isValid THEN Min(page.currentStep + 1, LastStep)
                   ELSE page.currentStep IN
         page' = [page EXCEPT
                    !.calls = Tail(@),
                    !.currentStep = to,
                    !.moves = Append(@, [kind |-> "next", from |-> page.currentStep,
                                         to |-> to, fields |-> Head(page.calls),
                                         valid |-> isValid])]
    /\ UNCHANGED pageFrame

\* click on Back (disabled while currentStep === 0):
\* setCurrentStep((prev) => Math.max(prev - 1, 0))
PrevClick ==
    /\ Mounted
    /\ page.shown # 0
    /\ Clicks < MaxClicks
    /\ LET to == Max(page.currentStep - 1, 0) IN
       page' = [page EXCEPT
                  !.currentStep = to,
                  !.moves = Append(@, [kind |-> "prev", from |-> page.currentStep,
                                       to |-> to, fields |-> page.shown,
                                       valid |-> TRUE])]
    /\ UNCHANGED pageFrame

\* a form value changes: the callback of form.watch starts a timer that
\* will write this value; what the callback returns is not used
Edit ==
    /\ Mounted
    /\ page.edits < MaxEdits
    /\ page' = [page EXCEPT !.edits = @ + 1, !.timers = @ \cup {page.edits + 1}]
    /\ UNCHANGED pageFrame

\* a timer runs: localStorage.setItem("registration-draft", value)
SaveDraft ==
    /\ \E v \in page.timers :
         page' = [page EXCEPT !.timers = @ \ {v}, !.draft = Some(v)]
    /\ UNCHANGED pageFrame

\* click on Submit Registration (on the screen at the last step, enabled
\* while no request is pending): handleSubmit validates the form, onSubmit
\* wants the payment file, then registrationMutation.mutate
Submit ==
    /\ Mounted
    /\ page.shown = LastStep
    /\ page.mutation # "pending"
    /\ \E accepted \in BOOLEAN :
         page' = [page EXCEPT !.submittedAt = Some(page.shown),
                              !.mutation = IF accepted THEN "pending" ELSE @]
    /\ UNCHANGED pageFrame

\* onSuccess: localStorage.removeItem("registration-draft"), navigate("/thanks")
Succeed ==
    /\ page.mutation = "pending"
    /\ page' = [page EXCEPT !.mutation = "success", !.draft = NULL]
    /\ UNCHANGED pageFrame

\* onError: a toast; the page stays
Fail ==
    /\ page.mutation = "pending"
    /\ page' = [page EXCEPT !.mutation = "error"]
    /\ UNCHANGED pageFrame

NextPage ==
    \/ Render
    \/ NextClick
    \/ NextResolve
    \/ PrevClick
    \/ Edit
    \/ SaveDraft
    \/ Submit
    \/ Succeed
    \/ Fail

SpecPage == Init /\ [][NextPage]_vars

(* C26.  Under any sequence of nextStep and prevStep calls currentStep    *)
(* stays within 0..3 and a call changes it by at most one; nextStep       *)
(* advances only when the fields of the step it advances from were found  *)
(* valid, and leaves currentStep alone otherwise; the form is submitted   *)
(* only at step 3.                                                        *)
C26_WizardSteps ==
    /\ page.currentStep \in 0..3
    /\ \A k \in DOMAIN page.moves :
         LET m == page.moves[k] IN
         /\ m.to - m.from \in {-1, 0, 1}
         /\ m.kind = "next"
            => IF m.valid THEN m.fields = m.from /\ m.to = Min(m.from + 1, 3)
               ELSE m.to = m.from
    /\ ~IsNull(page.submittedAt) => page.submittedAt = Some(3)

(* C30.  After a successful registration has removed the draft, the draft *)
(* stays absent from localStorage: no timer started by an earlier change  *)
(* of the form writes it back.                                            *)
C30_DraftStaysRemoved ==
    page.mutation = "success" => IsNull(page.draft)
====
